---- MODULE Spec2Model ----
(***************************************************************************)
(* remotelib: a path abstraction over a local or a remote (ssh) host.      *)
(*                                                                         *)
(* Strings are sequences of one-character strings.  A bare path            *)
(* (pathlib.PurePosixPath) is a record [root, parts]; a host is a record   *)
(* [kind, hostname, user, port]; a Path is a record [host, path].          *)
(***************************************************************************)
EXTENDS Integers, Sequences, FiniteSets, TLC

VARIABLES
    p,       \* the Path object at hand (NoPath before a construction)
    last,    \* the last call on it: operation, operands and outcome
    cmd,     \* the last command handed to _wrap_exception and its outcome
    ran,     \* the commands the last file operation handed to the host's run
    fs       \* the file system of p's host at p: what is there, and its parent

vars == <<p, last, cmd, ran, fs>>

(***************************************************************************)
(* Bounds                                                                  *)
(***************************************************************************)
\* longest input string of the Address grammar runs
MaxLen == 6
\* longest bare-path text of a constructed Path
MaxBare == 3
\* most phrases in the stderr of a failed command
MaxChunks == 2
\* most entries in the mapping a caller passes to run
MaxEntries == 2

Alphabet == {"/", "~", ":", "@", ".", "a", "2"}

\* every string over alpha of length at most n
AllStrs(alpha, n) == UNION {[1..k -> alpha] : k \in 0..n}

(***************************************************************************)
(* str primitives                                                          *)
(***************************************************************************)
\* c in s
Contains(s, c) == \E i \in 1..Len(s) : s[i] = c

\* s.count(c)
Count(s, c) == Cardinality({i \in 1..Len(s) : s[i] = c})

\* s.index(c), 1-based; only used where c is in s
Index(s, c) == CHOOSE i \in 1..Len(s) : s[i] = c /\ \A j \in 1..(i - 1) : s[j] # c

\* s.find(c1 + c2), 1-based, 0 when absent
Find2(s, c1, c2) ==
    LET hits == {i \in 1..(Len(s) - 1) : s[i] = c1 /\ s[i + 1] = c2}
    IN  IF hits = {} THEN 0 ELSE CHOOSE i \in hits : \A j \in hits : i <= j

\* s.rfind(c), 1-based, 0 when absent
RFind(s, c) ==
    LET hits == {i \in 1..Len(s) : s[i] = c}
    IN  IF hits = {} THEN 0 ELSE CHOOSE i \in hits : \A j \in hits : i >= j

\* s[i:] with i 1-based
From(s, i) == SubSeq(s, i, Len(s))

\* s[:i-1] with i 1-based
Before(s, i) == SubSeq(s, 1, i - 1)

RECURSIVE LStrip(_, _)
\* s.lstrip(c)
LStrip(s, c) == IF Len(s) > 0 /\ s[1] = c THEN LStrip(Tail(s), c) ELSE s

RECURSIVE SplitOn(_, _)
\* s.split(c): the pieces between the occurrences of c, empty ones kept
SplitOn(s, c) ==
    IF ~Contains(s, c) THEN <<s>>
    ELSE <<Before(s, Index(s, c))>> \o SplitOn(From(s, Index(s, c) + 1), c)

RECURSIVE JoinWith(_, _)
\* c.join(pieces)
JoinWith(pieces, c) ==
    IF Len(pieces) = 0 THEN <<>>
    ELSE IF Len(pieces) = 1 THEN pieces[1]
    ELSE pieces[1] \o <<c>> \o JoinWith(Tail(pieces), c)

(***************************************************************************)
(* Outcome of a call: a value, or an exception that reaches the caller     *)
(***************************************************************************)
Ok(v) == [ok |-> TRUE, val |-> v, exc |-> "none"]
Raise(e) == [ok |-> FALSE, val |-> <<>>, exc |-> e]

(***************************************************************************)
(* pathlib.Path (LocalPath) on POSIX, as the library uses it               *)
(***************************************************************************)
\* segments of the text after the root: empty and '.' segments are dropped
Segments(rel) == SelectSeq(SplitOn(rel, "/"), LAMBDA x : x # <<>> /\ x # <<".">>)

\* LocalPath(text): exactly two leading slashes are kept as the root '//'
LocalPath(s) ==
    IF Len(s) > 0 /\ s[1] = "/"
    THEN LET rel == LStrip(s, "/")
         IN  [root |-> IF Len(s) - Len(rel) = 2 THEN <<"/", "/">> ELSE <<"/">>,
              parts |-> Segments(rel)]
    ELSE [root |-> <<>>, parts |-> Segments(s)]

\* str(LocalPath): the empty path is '.'
PathStr(lp) ==
    LET text == lp.root \o JoinWith(lp.parts, "/")
    IN  IF text = <<>> THEN <<".">> ELSE text

\* LocalPath.name
Name(lp) == IF Len(lp.parts) = 0 THEN <<>> ELSE lp.parts[Len(lp.parts)]

\* LocalPath.suffix
Suffix(lp) ==
    LET name == Name(lp)
        i == RFind(name, ".")
    IN  IF 1 < i /\ i < Len(name) THEN From(name, i) ELSE <<>>

\* LocalPath.stem
Stem(lp) ==
    LET name == Name(lp)
        i == RFind(name, ".")
    IN  IF 1 < i /\ i < Len(name) THEN Before(name, i) ELSE name

\* LocalPath.parent: the root and the empty path are their own parent
LocalParent(lp) ==
    IF Len(lp.parts) = 0 THEN lp
    ELSE [root |-> lp.root, parts |-> SubSeq(lp.parts, 1, Len(lp.parts) - 1)]

\* LocalPath.with_name(name): the name is kept as given, not normalised
LocalWithName(lp, name) ==
    IF Name(lp) = <<>> THEN Raise("ValueError: empty name")
    ELSE IF \/ name = <<>>
            \/ name[Len(name)] = "/"
            \/ LocalPath(name).root # <<>>
            \/ Len(LocalPath(name).parts) # 1
         THEN Raise("ValueError: invalid name")
    ELSE Ok([root |-> lp.root,
             parts |-> Append(SubSeq(lp.parts, 1, Len(lp.parts) - 1), name)])

\* LocalPath.with_stem(stem)
LocalWithStem(lp, stem) == LocalWithName(lp, stem \o Suffix(lp))

\* LocalPath.with_suffix(suffix)
LocalWithSuffix(lp, suffix) ==
    IF Contains(suffix, "/") THEN Raise("ValueError: invalid suffix")
    ELSE IF (suffix # <<>> /\ suffix[1] # ".") \/ suffix = <<".">>
         THEN Raise("ValueError: invalid suffix")
    ELSE IF Name(lp) = <<>> THEN Raise("ValueError: empty name")
    ELSE LET name == Name(lp)
             old == Suffix(lp)
             new == Before(name, Len(name) - Len(old) + 1) \o suffix
         IN  Ok([root |-> lp.root,
                 parts |-> Append(SubSeq(lp.parts, 1, Len(lp.parts) - 1), new)])

\* LocalPath / LocalPath: a rooted right operand replaces the left one
LocalJoin(lp, key) ==
    IF key.root # <<>> THEN key
    ELSE [root |-> lp.root, parts |-> lp.parts \o key.parts]

\* other is a prefix of lp: same root, and its segments lead lp's
IsPrefix(other, lp) ==
    /\ other.root = lp.root
    /\ Len(other.parts) <= Len(lp.parts)
    /\ SubSeq(lp.parts, 1, Len(other.parts)) = other.parts

\* LocalPath.relative_to(other)
LocalRelativeTo(lp, other) ==
    IF IsPrefix(other, lp)
    THEN Ok([root |-> <<>>, parts |-> SubSeq(lp.parts, Len(other.parts) + 1, Len(lp.parts))])
    ELSE Raise("ValueError: not in the subpath")

\* LocalPath.is_relative_to(other)
LocalIsRelativeTo(lp, other) == LocalRelativeTo(lp, other).ok

(***************************************************************************)
(* Hosts (_ssh.py)                                                         *)
(***************************************************************************)
\* os.getlogin() of the invoking process
_DEFAULT_USER == <<"a">>
_DEFAULT_PORT == 22

Digits == <<"0", "1", "2", "3", "4", "5", "6", "7", "8", "9">>

DigitVal(c) == (CHOOSE i \in 1..Len(Digits) : Digits[i] = c) - 1

\* int(text) succeeds: of the characters modelled, only digits make an integer
IsInt(s) == Len(s) > 0 /\ \A i \in 1..Len(s) : \E d \in 1..Len(Digits) : Digits[d] = s[i]

RECURSIVE ParseInt(_)
\* int(text)
ParseInt(s) ==
    IF Len(s) = 0 THEN 0
    ELSE 10 * ParseInt(SubSeq(s, 1, Len(s) - 1)) + DigitVal(s[Len(s)])

RECURSIVE IntStr(_)
\* str(number), number >= 0
IntStr(n) == IF n < 10 THEN <<Digits[n + 1]>> ELSE IntStr(n \div 10) \o <<Digits[(n % 10) + 1]>>

Local == [kind |-> "Local", hostname |-> <<>>, user |-> <<>>, port |-> 0]

Remote(hostname, user, port) ==
    [kind |-> "Remote", hostname |-> hostname, user |-> user, port |-> port]

\* HostEq that leaves the port out of the comparison
HostEqNoPort(h1, h2) ==
    /\ h1.kind = h2.kind
    /\ h1.kind = "Remote" => <<h1.hostname, h1.user>> = <<h2.hostname, h2.user>>

\* dataclass equality: same class and equal field tuples
HostEq(h1, h2) ==
    /\ h1.kind = h2.kind
    /\ h1.kind = "Remote" =>
         <<h1.hostname, h1.user, h1.port>> = <<h2.hostname, h2.user, h2.port>>

\* HostStr that never writes the user
HostStrNoUser(h) ==
    IF h.port # _DEFAULT_PORT THEN h.hostname \o <<":">> \o IntStr(h.port) ELSE h.hostname

\* Remote.__str__: the descriptor with the defaults left out
HostStr(h) ==
    LET withUser == IF h.user # _DEFAULT_USER THEN h.user \o <<"@">> \o h.hostname
                    ELSE h.hostname
    IN  IF h.port # _DEFAULT_PORT THEN withUser \o <<":">> \o IntStr(h.port) ELSE withUser

\* Host.prefix
Prefix(h) == IF h.kind = "Remote" THEN HostStr(h) \o <<":">> ELSE <<>>

\* the user part of Remote.from_str, on the text left of the port
FromStrUser(host, port) ==
    IF Contains(host, "@")
    THEN IF Count(host, "@") # 1 THEN Raise("AssertionError")
         ELSE Ok(Remote(From(host, Index(host, "@") + 1), Before(host, Index(host, "@")), port))
    ELSE Ok(Remote(host, _DEFAULT_USER, port))

\* Remote.from_str
FromStr(host) ==
    IF Contains(host, ":")
    THEN IF Count(host, ":") # 1 THEN Raise("AssertionError")
         ELSE LET port_ == From(host, Index(host, ":") + 1)
              IN  IF ~IsInt(port_) THEN Raise("ValueError: invalid literal for int()")
                  ELSE FromStrUser(Before(host, Index(host, ":")), ParseInt(port_))
    ELSE FromStrUser(host, _DEFAULT_PORT)

(***************************************************************************)
(* Address grammar and Path (_file.py)                                     *)
(***************************************************************************)
\* the branch split takes: the marker ('/' or '~') after the colon, or none
SplitMarker(path) ==
    IF Find2(path, ":", "/") # 0 /\ Index(path, ":") < Index(path, "/") THEN "/"
    ELSE IF Find2(path, ":", "~") # 0 /\ Index(path, ":") < Index(path, "~") THEN "~"
    ELSE "none"

\* split without putting the marker back in front of the bare path
SplitDropsMarker(path) ==
    LET m == SplitMarker(path)
    IN  IF m = "none" THEN Ok([host |-> Local, path |-> LocalPath(path)])
        ELSE LET at == Find2(path, ":", m)
                 host == FromStr(Before(path, at))
             IN  IF host.ok
                 THEN Ok([host |-> host.val, path |-> LocalPath(From(path, at + 2))])
                 ELSE host

\* split(path) -> (host, LocalPath)
Split(path) ==
    LET m == SplitMarker(path)
    IN  IF m = "none" THEN Ok([host |-> Local, path |-> LocalPath(path)])
        ELSE LET at == Find2(path, ":", m)
                 host == FromStr(Before(path, at))
             IN  IF host.ok
                 THEN Ok([host |-> host.val, path |-> LocalPath(From(path, at + 1))])
                 ELSE host

\* Path(str)
PathOfStr(s) == Split(s)

\* Path.__str__
Str(x) == Prefix(x.host) \o PathStr(x.path)

\* Path.__eq__ with another Path
PathEq(x, y) == x.path = y.path /\ HostEq(x.host, y.host)

\* Path._add_remote
AddRemote(x, lp) == PathOfStr(Prefix(x.host) \o PathStr(lp))

\* Path.is_remote
IsRemote(x) == x.host.kind = "Remote"

\* Path(pathlib.Path)
PathOfLocal(lp) == [host |-> Local, path |-> lp]

\* an operand of a call: a str (text), a pathlib.Path (obj.path) or a
\* remotelib Path (obj)
StrArg(s) == [type |-> "str", text |-> s, obj |-> PathOfLocal(LocalPath(<<>>))]
LocalArg(lp) == [type |-> "LocalPath", text |-> <<>>, obj |-> PathOfLocal(lp)]
PathArg(x) == [type |-> "Path", text |-> <<>>, obj |-> x]
NoArg == [type |-> "none", text |-> <<>>, obj |-> PathOfLocal(LocalPath(<<>>))]

\* Path.__init__
PathOf(arg) ==
    CASE arg.type = "str" -> PathOfStr(arg.text)
      [] arg.type = "LocalPath" -> Ok(PathOfLocal(arg.obj.path))
      [] arg.type = "Path" -> Ok(arg.obj)
      [] OTHER -> Raise("TypeError")

\* Path.__eq__
Eq(x, other) ==
    CASE other.type = "Path" -> PathEq(x, other.obj)
      [] other.type = "LocalPath" -> x.path = other.obj.path /\ ~IsRemote(x)
      [] OTHER -> FALSE

\* the outcome of _add_remote on the outcome of a pathlib call
Reattach(x, r) == IF r.ok THEN AddRemote(x, r.val) ELSE r

\* Path.parent
Parent(x) == AddRemote(x, LocalParent(x.path))

\* Path.with_name
WithName(x, name) == Reattach(x, LocalWithName(x.path, name))

\* Path.with_stem
WithStem(x, stem) == Reattach(x, LocalWithStem(x.path, stem))

\* Path.with_suffix
WithSuffix(x, suffix) == Reattach(x, LocalWithSuffix(x.path, suffix))

\* Path.relative_to
RelativeTo(x, other_) ==
    LET other == PathOf(other_)
    IN  IF ~other.ok THEN other
        ELSE IF ~HostEq(x.host, other.val.host) THEN Raise("ValueError: hosts must match")
        ELSE Reattach(x, LocalRelativeTo(x.path, other.val.path))

\* Path.is_relative_to
IsRelativeTo(x, other_) ==
    LET other == PathOf(other_)
    IN  IF ~other.ok THEN other
        ELSE IF ~HostEq(x.host, other.val.host) THEN Ok(FALSE)
        ELSE Ok(LocalIsRelativeTo(x.path, other.val.path))

\* Path.__truediv__
Join(x, key) ==
    IF key.type = "Path" /\ ~HostEq(x.host, key.obj.host)
    THEN Raise("ValueError: Hosts must be the same when joining paths")
    ELSE LET k == PathOf(key)
         IN  IF ~k.ok THEN k ELSE AddRemote(x, LocalJoin(x.path, k.val.path))

\* Path.resolve, given what realpath printed (remote) or pathlib resolved (local)
Resolve(x, text) == PathOfStr(Prefix(x.host) \o text)

\* Path.glob, one yielded Path: given a line ls printed (remote) or the text
\* of a path pathlib's glob found (local)
Glob(x, file) == PathOfStr(Prefix(x.host) \o file)

(***************************************************************************)
(* Inputs of the calls                                                     *)
(***************************************************************************)

\* host prefixes of the constructed Paths: none, a host, another host, a
\* user, a port, and the defaults spelled out
Descriptors ==
    { <<>>,
      <<"a", ":">>,
      <<"2", ":">>,
      <<"2", "@", "a", ":">>,
      <<"a", ":", "2", ":">>,
      <<"a", "@", "a", ":", "2", "2", ":">> }

PathInputs == {d \o b : d \in Descriptors, b \in AllStrs(Alphabet, MaxBare)}

OperandTexts ==
    {d \o b : d \in {<<>>, <<"a", ":">>, <<"2", "@", "a", ":">>},
              b \in AllStrs(Alphabet, 1)}

\* right-hand operands: texts, bare local paths, and Paths
Operands ==
    {StrArg(s) : s \in OperandTexts}
        \cup {LocalArg(LocalPath(s)) : s \in AllStrs(Alphabet, 1)}
        \cup {PathArg(PathOfStr(s).val) : s \in {t \in OperandTexts : PathOfStr(t).ok}}

NameArgs ==
    AllStrs(Alphabet, 1)
        \cup {<<".", "a">>, <<"a", ".", "a">>, <<":", "~">>, <<"a", "/">>, <<".", "/", "a">>}

\* what realpath can print: a rooted, normalised path
AbsTexts ==
    {PathStr(LocalPath(<<"/">> \o b)) : b \in {c \in AllStrs(Alphabet, 1) : c # <<"/">>}}

\* remote: realpath's output, or the path echoed back; local: pathlib's answer
ResolveTexts(x) == IF IsRemote(x) THEN AbsTexts \cup {PathStr(x.path)} ELSE AbsTexts

\* names of directory entries a pattern can match
GlobNames == {<<c>> : c \in Alphabet \ {"/", "."}}

\* remote: the lines of `ls -d <path>/<pattern>`, the shell having replaced a
\* leading ~ by the home directory; local: the paths pathlib's glob finds
GlobTexts(x) ==
    IF IsRemote(x)
    THEN {PathStr(x.path) \o <<"/">> \o n : n \in GlobNames} \cup AbsTexts
    ELSE {PathStr(LocalJoin(x.path, LocalPath(n))) : n \in GlobNames}

\* the bare local paths a Path is constructed from
LocalInputs == {LocalPath(b) : b \in AllStrs(Alphabet, MaxBare)}

(***************************************************************************)
(* State machine of Path values                                            *)
(***************************************************************************)
\* Path(): the current directory on the local host
DefaultPath == PathOfLocal(LocalPath(<<".">>))

Call(op, self, arg, out) == [op |-> op, self |-> self, arg |-> arg, out |-> out]

NoCmd ==
    [exc |-> [type |-> "None", map |-> <<>>, class |-> "none"], exit |-> 0, stderr |-> <<>>,
     raised |-> "none"]

\* nothing at the path, inside an existing directory
NoFs == [target |-> "absent", parent |-> "dir"]

Init ==
    /\ p = DefaultPath
    /\ last = Call("init", DefaultPath, NoArg, Ok(DefaultPath))
    /\ cmd = NoCmd
    /\ ran = <<>>
    /\ fs = NoFs

\* the caller holds a Path and is about to call on it
Idle == last.op \in {"Path", "adopt"} /\ last.out.ok

\* a new Path replaces the one at hand while its bare path stays short
Fits(x) == Len(PathStr(x.path)) <= MaxBare

\* a call on the Path at hand: its operands and outcome are recorded
Do(op, arg, out) ==
    /\ Idle
    /\ last' = Call(op, p, arg, out)
    /\ UNCHANGED <<p, cmd, ran, fs>>

\* Path(text), the first Path of a run
Construct(s) ==
    /\ last.op = "init"
    /\ last' = Call("Path", p, StrArg(s), PathOfStr(s))
    /\ p' = IF PathOfStr(s).ok THEN PathOfStr(s).val ELSE p
    /\ UNCHANGED <<cmd, ran, fs>>

\* Path(pathlib.Path), the first Path of a run
ConstructLocal(lp) ==
    /\ last.op = "init"
    /\ last' = Call("Path", p, LocalArg(lp), PathOf(LocalArg(lp)))
    /\ p' = PathOf(LocalArg(lp)).val
    /\ UNCHANGED <<cmd, ran, fs>>

DerivingOps ==
    {"reparse", "parent", "with_name", "with_stem", "with_suffix", "join", "relative_to",
     "resolve", "copy", "glob"}

\* the caller goes on with the Path a call returned
Adopt ==
    /\ last.op \in DerivingOps
    /\ last.out.ok
    /\ Fits(last.out.val)
    /\ p' = last.out.val
    /\ last' = Call("adopt", last.out.val, NoArg, Ok(last.out.val))
    /\ UNCHANGED <<cmd, ran, fs>>

\* Path(str(p))
DoReparse == Do("reparse", StrArg(Str(p)), PathOfStr(Str(p)))

DoParent == Do("parent", NoArg, Parent(p))

DoWithName(name) == Do("with_name", StrArg(name), WithName(p, name))

DoWithStem(stem) == Do("with_stem", StrArg(stem), WithStem(p, stem))

DoWithSuffix(suffix) == Do("with_suffix", StrArg(suffix), WithSuffix(p, suffix))

DoJoin(key) == Do("join", key, Join(p, key))

DoRelativeTo(other) == Do("relative_to", other, RelativeTo(p, other))

DoIsRelativeTo(other) == Do("is_relative_to", other, IsRelativeTo(p, other))

DoEq(other) == Do("eq", other, Ok(Eq(p, other)))

DoResolve(text) == Do("resolve", StrArg(text), Resolve(p, text))

\* Path(p)
DoCopy == Do("copy", PathArg(p), PathOf(PathArg(p)))

\* one Path yielded by p.glob(pattern)
DoGlob(file) == Do("glob", StrArg(file), Glob(p, file))

Next ==
    \/ last.op = "init" /\ \E s \in PathInputs : Construct(s)
    \/ Adopt
    \/ DoReparse
    \/ DoParent
    \/ Idle /\ \E name \in NameArgs : DoWithName(name)
    \/ Idle /\ \E stem \in NameArgs : DoWithStem(stem)
    \/ Idle /\ \E suffix \in NameArgs : DoWithSuffix(suffix)
    \/ Idle /\ \E key \in Operands : DoJoin(key)
    \/ Idle /\ \E other \in Operands : DoRelativeTo(other)
    \/ Idle /\ \E other \in Operands : DoIsRelativeTo(other)
    \/ Idle /\ \E other \in Operands \cup {LocalArg(p.path), PathArg(p)} : DoEq(other)
    \/ Idle /\ \E text \in ResolveTexts(p) : DoResolve(text)
    \/ last.op = "init" /\ \E lp \in LocalInputs : ConstructLocal(lp)
    \/ DoCopy
    \/ Idle /\ \E file \in GlobTexts(p) : DoGlob(file)

Spec == Init /\ [][Next]_vars

(***************************************************************************)
(* The Address grammar on every short text                                 *)
(***************************************************************************)
ParseNext ==
    \/ last.op = "init" /\ \E s \in AllStrs(Alphabet, MaxLen) : Construct(s)
    \/ DoReparse

SpecParse == Init /\ [][ParseNext]_vars

(***************************************************************************)
(* Error translation (_ssh.py).  Texts are sequences of words here; a      *)
(* dict is the sequence of its entries in insertion order.                 *)
(***************************************************************************)
Entry(key, exception) == [key |-> key, exception |-> exception]

_DEFAULT_BASH_EXCEPTIONS ==
    << Entry(<<"No", "such", "file", "or", "directory">>, "FileNotFoundError"),
       Entry(<<"Permission", "denied">>, "PermissionError"),
       Entry(<<"File", "exists">>, "FileExistsError") >>

\* key in text
IsSubstr(key, text) ==
    \E i \in 0..(Len(text) - Len(key)) : SubSeq(text, i + 1, i + Len(key)) = key

\* key in d
HasKey(d, key) == \E i \in 1..Len(d) : d[i].key = key

\* Put that keeps the entry already there
PutKeepsOld(d, entry) == IF HasKey(d, entry.key) THEN d ELSE Append(d, entry)

\* d[entry.key] = entry.exception: a known key keeps its place
Put(d, entry) ==
    IF HasKey(d, entry.key)
    THEN [i \in 1..Len(d) |-> IF d[i].key = entry.key THEN entry ELSE d[i]]
    ELSE Append(d, entry)

RECURSIVE Merge(_, _)
\* d | e
Merge(d, e) == IF Len(e) = 0 THEN d ELSE Merge(Put(d, Head(e)), Tail(e))

RECURSIVE ScanFirst(_, _, _)
\* Scan that leaves the loop at the first matching entry
ScanFirst(entries, stderr, new_exc) ==
    IF Len(entries) = 0 THEN new_exc
    ELSE IF IsSubstr(Head(entries).key, stderr) THEN Head(entries).exception
    ELSE ScanFirst(Tail(entries), stderr, new_exc)

RECURSIVE Scan(_, _, _)
\* the loop over the merged mapping: every matching entry overwrites new_exc
Scan(entries, stderr, new_exc) ==
    IF Len(entries) = 0 THEN new_exc
    ELSE Scan(Tail(entries), stderr,
              IF IsSubstr(Head(entries).key, stderr) THEN Head(entries).exception
              ELSE new_exc)

\* what a caller passes as exc: None, a mapping, or one exception class
NoExc == [type |-> "None", map |-> <<>>, class |-> "none"]
DictExc(d) == [type |-> "dict", map |-> d, class |-> "none"]
ClassExc(c) == [type |-> "class", map |-> <<>>, class |-> c]

\* _wrap_exception around a command that exited with returncode: the kind
\* of the exception raised, "none" when the command succeeded
WrapException(exc, returncode, stderr) ==
    IF returncode = 0 THEN "none"
    ELSE IF exc.type = "dict" \/ exc.type = "None"
         THEN Scan(Merge(_DEFAULT_BASH_EXCEPTIONS, exc.map), stderr, "CalledProcessError")
    ELSE exc.class

\* phrases a stderr is made of
Chunks ==
    { <<"cat:">>,
      <<"No", "such", "file", "or", "directory">>,
      <<"Permission", "denied">>,
      <<"File", "exists">>,
      <<"Custom", "msg">>,
      <<"Read-only", "file", "system">> }

RECURSIVE Concat(_)
Concat(chunks) == IF Len(chunks) = 0 THEN <<>> ELSE Head(chunks) \o Concat(Tail(chunks))

StderrTexts == {Concat(c) : c \in AllStrs(Chunks, MaxChunks)}

CallerEntries ==
    {Entry(k, e) :
        k \in {<<"Custom", "msg">>, <<"Permission", "denied">>, <<"denied">>,
               <<"Read-only", "file", "system">>},
        e \in {"FooError", "PermissionError"}}

\* a dict has each key once
CallerDicts ==
    {d \in AllStrs(CallerEntries, MaxEntries) :
        \A i, j \in 1..Len(d) : d[i].key = d[j].key => i = j}

CallerExcs == {NoExc, ClassExc("FooError")} \cup {DictExc(d) : d \in CallerDicts}

\* a command about to run: what the caller passed and how the command ends
Pending(exc, returncode, stderr) ==
    [exc |-> exc, exit |-> returncode, stderr |-> stderr, raised |-> "pending"]

ErrInit ==
    /\ p = DefaultPath
    /\ last = Call("init", DefaultPath, NoArg, Ok(DefaultPath))
    /\ ran = <<>>
    /\ fs = NoFs
    /\ cmd \in {Pending(exc, returncode, stderr) :
                  exc \in CallerExcs, returncode \in {0, 1}, stderr \in StderrTexts}

\* Host.run: the command runs inside _wrap_exception
Run ==
    /\ cmd.raised = "pending"
    /\ cmd' = [cmd EXCEPT !.raised = WrapException(cmd.exc, cmd.exit, cmd.stderr)]
    /\ UNCHANGED <<p, last, ran, fs>>

ErrNext == Run

SpecErr == ErrInit /\ [][ErrNext]_vars

(***************************************************************************)
(* File operations (_file.py) and the commands they hand to the host       *)
(* (_ssh.py).  A captured output is the sequence of its lines.  The file   *)
(* system holds what is at the path (nothing, a directory, a regular       *)
(* file, or a symbolic link whose referent is missing) and whether the     *)
(* path's parent directory is there.                                       *)
(***************************************************************************)
FsStates ==
    {f \in [target : {"absent", "dir", "file", "link"}, parent : {"absent", "dir"}] :
        f.parent = "absent" => f.target = "absent"}

\* how a command handed to the transport ended
End(exit, stdout, stderr) ==
    [exit |-> exit, stdout |-> stdout, stderr |-> stderr, timeout |-> FALSE]

\* subprocess.check_output gave up after the timeout
TimedOut == [exit |-> 0, stdout |-> <<>>, stderr |-> <<>>, timeout |-> TRUE]

NoSuchFile == End(1, <<>>, <<"No", "such", "file", "or", "directory">>)

FileExists == End(1, <<>>, <<"File", "exists">>)

\* the command line of a file operation: an optional `[[ -f path ]] ||`
\* in front, the program, its options, an operand and the path
Command(test, prog, opts, operand, path) ==
    [test |-> test, prog |-> prog, opts |-> opts, operand |-> operand, path |-> path]

HasOpt(c, opt) == \E i \in 1..Len(c.opts) : c.opts[i] = opt

\* a command's end and the file system it leaves
Outcome(end, f) == [end |-> end, fs |-> f]

\* mkdir [-p] path on the host
ShMkdir(c, f) ==
    CASE f.target = "dir" ->
            IF HasOpt(c, "-p") THEN Outcome(End(0, <<>>, <<>>), f) ELSE Outcome(FileExists, f)
      [] f.target \in {"file", "link"} -> Outcome(FileExists, f)
      [] f.parent = "dir" -> Outcome(End(0, <<>>, <<>>), [f EXCEPT !.target = "dir"])
      [] HasOpt(c, "-p") -> Outcome(End(0, <<>>, <<>>), [target |-> "dir", parent |-> "dir"])
      [] OTHER -> Outcome(NoSuchFile, f)

\* touch path on the host
ShTouch(f) ==
    CASE f.target \in {"dir", "file"} -> Outcome(End(0, <<>>, <<>>), f)
      [] f.target = "link" -> Outcome(NoSuchFile, f)
      [] f.parent = "dir" -> Outcome(End(0, <<>>, <<>>), [f EXCEPT !.target = "file"])
      [] OTHER -> Outcome(NoSuchFile, f)

\* rm [-f] path on the host
ShRm(c, f) ==
    CASE f.target \in {"file", "link"} ->
            Outcome(End(0, <<>>, <<>>), [f EXCEPT !.target = "absent"])
      [] f.target = "dir" -> Outcome(End(1, <<>>, <<"Is", "a", "directory">>), f)
      [] HasOpt(c, "-f") -> Outcome(End(0, <<>>, <<>>), f)
      [] OTHER -> Outcome(NoSuchFile, f)

\* ln -s real path on the host
ShLn(f) ==
    CASE f.target = "dir" -> Outcome(End(0, <<>>, <<>>), f)
      [] f.target \in {"file", "link"} -> Outcome(FileExists, f)
      [] f.parent = "dir" -> Outcome(End(0, <<>>, <<>>), [f EXCEPT !.target = "link"])
      [] OTHER -> Outcome(NoSuchFile, f)

\* st_mode of what is at the path
ModeOf(kind) == CASE kind = "dir" -> 16877 [] kind = "file" -> 33188 [] OTHER -> 41471

HexDigits ==
    <<"0", "1", "2", "3", "4", "5", "6", "7", "8", "9", "a", "b", "c", "d", "e", "f">>

RECURSIVE HexStr(_)
\* '%f' of stat: the mode in hex
HexStr(n) ==
    IF n < 16 THEN <<HexDigits[n + 1]>> ELSE HexStr(n \div 16) \o <<HexDigits[(n % 16) + 1]>>

\* stat [-L] --format='%f %i %d %h %u %g %s %X %Y %W' path on the host:
\* the mode, then inode, device, links, uid, gid, size and the times
ShStat(c, f) ==
    IF f.target = "absent" \/ (f.target = "link" /\ HasOpt(c, "-L"))
    THEN Outcome(NoSuchFile, f)
    ELSE Outcome(End(0,
                     <<HexStr(ModeOf(f.target))
                         \o <<" ", "7", " ", "2", " ", "1", " ", "0", " ", "0", " ", "9", " ",
                              "3", " ", "3", " ", "0">>>>,
                     <<>>), f)

\* what a file holds
Contents == {<<>>, <<<<"a">>>>, <<<<"a">>, <<"2">>>>}

\* cat path on the host
ShCat(f) ==
    CASE f.target = "file" -> {Outcome(End(0, t, <<>>), f) : t \in Contents}
      [] f.target = "dir" -> {Outcome(End(1, <<>>, <<"Is", "a", "directory">>), f)}
      [] OTHER -> {Outcome(NoSuchFile, f)}

\* the command on the host: what it does to the file system and how it ends
Sh(c, f) ==
    IF c.test /\ f.target = "file" THEN {Outcome(End(0, <<>>, <<>>), f)}
    ELSE CASE c.prog = "echo" -> {Outcome(End(0, <<c.operand>>, <<>>), f)}
           [] c.prog = "mkdir" -> {ShMkdir(c, f)}
           [] c.prog = "touch" -> {ShTouch(f)}
           [] c.prog = "rm" -> {ShRm(c, f)}
           [] c.prog = "ln" -> {ShLn(f)}
           [] c.prog = "stat" -> {ShStat(c, f)}
           [] c.prog = "cat" -> ShCat(f)
           [] c.prog = "chmod" ->
                IF f.target \in {"dir", "file"} THEN {Outcome(End(0, <<>>, <<>>), f)}
                ELSE {Outcome(NoSuchFile, f)}
           \* realpath path || echo path: realpath's answer, or the path echoed
           [] c.prog = "realpath" ->
                IF f.parent = "dir" /\ f.target # "link"
                THEN {Outcome(End(0, <<t>>, <<>>), f) : t \in AbsTexts}
                ELSE {Outcome(End(0, <<c.path>>, <<>>), f)}
           \* shopt -s extglob && ls -d path/pattern || true
           [] c.prog = "ls" ->
                IF f.target = "dir"
                THEN {Outcome(End(0, l, <<>>), f) :
                        l \in {<<>>, <<c.path \o <<"/", "a">>>>, <<c.path \o <<"/", "2">>>>,
                               <<c.path \o <<"/", "2">>, c.path \o <<"/", "a">>>>}}
                ELSE {Outcome(End(0, <<>>, <<>>), f)}

\* every way a command handed to a host can go: it runs there, it is
\* refused for want of permission (a failure the `|| ...` of exists, resolve
\* and glob hides), ssh fails to connect, or the transport times out
Outcomes(c, f) ==
    Sh(c, f)
        \cup (IF c.prog \in {"echo", "realpath", "ls"} THEN {}
              ELSE {Outcome(End(1, <<>>, <<"Permission", "denied">>), f)})
        \cup {Outcome(End(255, <<>>, <<"ssh:", "connect", "to", "host:", "Connection", "refused">>), f),
              Outcome(TimedOut, f)}

\* what a call returns: its outcome, the commands it handed to the host's
\* run, and the file system it leaves
Result(out, commands, f) == [out |-> out, ran |-> commands, fs |-> f]

\* Remote.run with a failure tried once more before it is raised
RunRetries(host, c, exc, o) ==
    Result(IF o.end.timeout THEN Raise("TimeoutExpired")
           ELSE IF o.end.exit # 0 THEN Raise(WrapException(exc, o.end.exit, o.end.stderr))
           ELSE Ok(o.end.stdout),
           IF o.end.timeout \/ o.end.exit # 0
           THEN <<[host |-> host, cmd |-> c, end |-> o.end],
                  [host |-> host, cmd |-> c, end |-> o.end]>>
           ELSE <<[host |-> host, cmd |-> c, end |-> o.end]>>,
           o.fs)

\* Remote.run: one _ssh_run inside _wrap_exception; the text returned is
\* the captured output
HostRun(host, c, exc, o) ==
    Result(IF o.end.timeout THEN Raise("TimeoutExpired")
           ELSE IF o.end.exit # 0 THEN Raise(WrapException(exc, o.end.exit, o.end.stderr))
           ELSE Ok(o.end.stdout),
           <<[host |-> host, cmd |-> c, end |-> o.end]>>,
           o.fs)

\* self._host.run(command), every way it can go
Runs(x, c, f) == {HostRun(x.host, c, NoExc, o) : o \in Outcomes(c, f)}

\* the value a method returns when the call under it returned
Returning(r, v) == IF r.out.ok THEN [r EXCEPT !.out = Ok(v)] ELSE r

\* Path.exists
Exists(x, f) ==
    IF IsRemote(x)
    THEN {IF r.out.ok THEN [r EXCEPT !.out = Ok(r.out.val # <<<<"n", "o">>>>)] ELSE r :
            r \in Runs(x, Command(TRUE, "echo", <<>>, <<"n", "o">>, PathStr(x.path)), f)}
    ELSE {Result(Ok(f.target \in {"dir", "file"}), <<>>, f)}

\* Path.read_text
ReadText(x, f) ==
    IF IsRemote(x) THEN Runs(x, Command(FALSE, "cat", <<>>, <<>>, PathStr(x.path)), f)
    ELSE (CASE f.target = "file" -> {Result(Ok(t), <<>>, f) : t \in Contents}
            [] f.target = "dir" -> {Result(Raise("IsADirectoryError"), <<>>, f)}
            [] OTHER -> {Result(Raise("FileNotFoundError"), <<>>, f)})
           \cup {Result(Raise("PermissionError"), <<>>, f)}

\* the command of Path.mkdir
MkdirCommand(x, exist_ok, parents) ==
    Command(exist_ok, "mkdir", IF parents THEN <<"-p">> ELSE <<>>, <<>>, PathStr(x.path))

\* self._path.mkdir(exist_ok=exist_ok, parents=parents)
LocalMkdir(exist_ok, parents, f) ==
    CASE f.target = "dir" ->
            IF exist_ok THEN Result(Ok("None"), <<>>, f)
            ELSE Result(Raise("FileExistsError"), <<>>, f)
      [] f.target \in {"file", "link"} -> Result(Raise("FileExistsError"), <<>>, f)
      [] f.parent = "dir" -> Result(Ok("None"), <<>>, [f EXCEPT !.target = "dir"])
      [] parents -> Result(Ok("None"), <<>>, [target |-> "dir", parent |-> "dir"])
      [] OTHER -> Result(Raise("FileNotFoundError"), <<>>, f)

\* Path.mkdir
Mkdir(x, exist_ok, parents, f) ==
    IF IsRemote(x)
    THEN {Returning(r, "None") : r \in Runs(x, MkdirCommand(x, exist_ok, parents), f)}
    ELSE {LocalMkdir(exist_ok, parents, f)}

\* Path.symlink_to
SymlinkTo(x, real_file, f) ==
    IF IsRemote(x)
    THEN {Returning(r, "None") :
            r \in Runs(x, Command(FALSE, "ln", <<"-s">>, Str(real_file), PathStr(x.path)), f)}
    ELSE CASE f.target # "absent" -> {Result(Raise("FileExistsError"), <<>>, f)}
           [] f.parent = "dir" -> {Result(Ok("None"), <<>>, [f EXCEPT !.target = "link"])}
           [] OTHER -> {Result(Raise("FileNotFoundError"), <<>>, f)}

RECURSIVE Words(_)
\* text.split(): the words of the lines
Words(lines) ==
    IF Len(lines) = 0 THEN <<>>
    ELSE SelectSeq(SplitOn(Head(lines), " "), LAMBDA w : w # <<>>) \o Words(Tail(lines))

\* int(text, 16) succeeds
IsHex(s) == Len(s) > 0 /\ \A i \in 1..Len(s) : \E d \in 1..Len(HexDigits) : HexDigits[d] = s[i]

RECURSIVE ParseHex(_)
\* int(text, 16)
ParseHex(s) ==
    IF Len(s) = 0 THEN 0
    ELSE 16 * ParseHex(SubSeq(s, 1, Len(s) - 1))
           + (CHOOSE i \in 1..Len(HexDigits) : HexDigits[i] = s[Len(s)]) - 1

\* mode_hex, *others = text.split();
\* os.stat_result((int(mode_hex, 16), *(int(st) for st in others)))
StatResult(lines) ==
    LET words == Words(lines)
    IN  IF Len(words) = 0 THEN Raise("ValueError: not enough values to unpack")
        ELSE IF ~IsHex(words[1]) \/ \E i \in 2..Len(words) : ~IsInt(words[i])
        THEN Raise("ValueError: invalid literal for int()")
        ELSE IF Len(words) < 10 THEN Raise("TypeError")
        ELSE Ok([st_mode |-> ParseHex(words[1]), st_ino |-> ParseInt(words[2])])

\* the command of Path.stat
StatCommand(x, follow_symlinks) ==
    Command(FALSE, "stat", IF follow_symlinks THEN <<"-L">> ELSE <<>>, <<>>, PathStr(x.path))

\* Path.stat
Stat(x, follow_symlinks, f) ==
    IF IsRemote(x)
    THEN {IF r.out.ok THEN [r EXCEPT !.out = StatResult(r.out.val)] ELSE r :
            r \in Runs(x, StatCommand(x, follow_symlinks), f)}
    ELSE IF f.target = "absent" \/ (f.target = "link" /\ follow_symlinks)
    THEN {Result(Raise("FileNotFoundError"), <<>>, f)}
    ELSE {Result(Ok([st_mode |-> ModeOf(f.target), st_ino |-> 7]), <<>>, f)}

\* Path.lstat
Lstat(x, f) == Stat(x, FALSE, f)

\* Path.unlink
Unlink(x, missing_ok, f) ==
    IF IsRemote(x)
    THEN {Returning(r, "None") :
            r \in Runs(x, Command(FALSE, "rm", IF missing_ok THEN <<"-f">> ELSE <<>>, <<>>,
                                  PathStr(x.path)), f)}
    ELSE CASE f.target \in {"file", "link"} ->
                {Result(Ok("None"), <<>>, [f EXCEPT !.target = "absent"])}
           [] f.target = "dir" -> {Result(Raise("IsADirectoryError"), <<>>, f)}
           [] missing_ok -> {Result(Ok("None"), <<>>, f)}
           [] OTHER -> {Result(Raise("FileNotFoundError"), <<>>, f)}

\* Path.touch
Touch(x, f) ==
    IF IsRemote(x)
    THEN {Returning(r, "None") :
            r \in Runs(x, Command(FALSE, "touch", <<>>, <<>>, PathStr(x.path)), f)}
    ELSE CASE f.target \in {"dir", "file"} -> {Result(Ok("None"), <<>>, f)}
           [] f.target = "link" -> {Result(Raise("FileNotFoundError"), <<>>, f)}
           [] f.parent = "dir" -> {Result(Ok("None"), <<>>, [f EXCEPT !.target = "file"])}
           [] OTHER -> {Result(Raise("FileNotFoundError"), <<>>, f)}

RECURSIVE OctStr(_)
\* f"{mode:o}"
OctStr(n) == IF n < 8 THEN <<Digits[n + 1]>> ELSE OctStr(n \div 8) \o <<Digits[(n % 8) + 1]>>

\* Path.chmod
Chmod(x, mode, f) ==
    IF IsRemote(x)
    THEN {Returning(r, "None") :
            r \in Runs(x, Command(FALSE, "chmod", <<>>, OctStr(mode), PathStr(x.path)), f)}
    ELSE IF f.target \in {"dir", "file"}
    THEN {Result(Ok("None"), <<>>, f), Result(Raise("PermissionError"), <<>>, f)}
    ELSE {Result(Raise("FileNotFoundError"), <<>>, f)}

\* Path.resolve on the file system: the text run returned, or pathlib's
\* answer, goes through _add_remote
FsResolve(x, f) ==
    {IF r.out.ok THEN [r EXCEPT !.out = Resolve(x, JoinWith(r.out.val, "\n"))] ELSE r :
        r \in IF IsRemote(x)
              THEN Runs(x, Command(FALSE, "realpath", <<"||", "echo">>, PathStr(x.path),
                                   PathStr(x.path)), f)
              ELSE {Result(Ok(<<t>>), <<>>, f) : t \in AbsTexts}}

\* S_ISDIR(mode): the file type bits of st_mode
S_ISDIR(mode) == (mode \div 4096) % 16 = 4

S_ISREG(mode) == (mode \div 4096) % 16 = 8

S_ISLNK(mode) == (mode \div 4096) % 16 = 10

S_ISSOCK(mode) == (mode \div 4096) % 16 = 12

\* Path.is_dir
IsDir(x, f) ==
    {IF r.out.ok THEN [r EXCEPT !.out = Ok(S_ISDIR(r.out.val.st_mode))] ELSE r :
        r \in Stat(x, TRUE, f)}

\* Path.is_file
IsFile(x, f) ==
    {IF r.out.ok THEN [r EXCEPT !.out = Ok(S_ISREG(r.out.val.st_mode))] ELSE r :
        r \in Stat(x, TRUE, f)}

\* Path.is_symlink
IsSymlink(x, f) ==
    {IF r.out.ok THEN [r EXCEPT !.out = Ok(S_ISLNK(r.out.val.st_mode))] ELSE r :
        r \in Stat(x, TRUE, f)}

\* Path.is_socket
IsSocket(x, f) ==
    {IF r.out.ok THEN [r EXCEPT !.out = Ok(S_ISSOCK(r.out.val.st_mode))] ELSE r :
        r \in Stat(x, TRUE, f)}

\* the body of the generator Path.glob returns, run by the first next() on
\* it: the files found, each made a Path of the same host
GlobBody(x, glob_pattern, f) ==
    {IF r.out.ok
     THEN [r EXCEPT !.out = Ok([i \in 1..Len(r.out.val) |-> Glob(x, r.out.val[i])])]
     ELSE r :
        r \in IF IsRemote(x)
              THEN Runs(x, Command(FALSE, "ls", <<"-d">>, glob_pattern, PathStr(x.path)), f)
              ELSE IF f.target = "dir"
              THEN {Result(Ok(l), <<>>, f) :
                      l \in {<<>>, <<PathStr(LocalJoin(x.path, LocalPath(<<"a">>)))>>,
                             <<PathStr(LocalJoin(x.path, LocalPath(<<"2">>))),
                               PathStr(LocalJoin(x.path, LocalPath(<<"a">>)))>>}}
              ELSE {Result(Ok(<<>>), <<>>, f)}}

(***************************************************************************)
(* State machine of the file operations on one Path                        *)
(***************************************************************************)
\* the Paths operated on: local and remote, rooted, relative and under ~
FsPaths ==
    {PathOfStr(s).val :
        s \in {<<"/", "a">>, <<"a", "/", "a">>, <<"a", ":", "/", "a">>,
               <<"2", "@", "a", ":", "2", ":", "~", "/", "a">>}}

FsInit ==
    /\ p \in FsPaths
    /\ last = Call("Path", p, PathArg(p), Ok(p))
    /\ cmd = NoCmd
    /\ ran = <<>>
    /\ fs \in FsStates

\* a file operation on the Path at hand: the call is recorded with its
\* outcome, with the commands it ran and with the file system it leaves
FsDo(op, arg, r) ==
    /\ last' = Call(op, p, arg, r.out)
    /\ ran' = r.ran
    /\ fs' = r.fs
    /\ UNCHANGED <<p, cmd>>

DoExists == \E r \in Exists(p, fs) : FsDo("exists", NoArg, r)

DoReadText == \E r \in ReadText(p, fs) : FsDo("read_text", NoArg, r)

DoMkdir(exist_ok, parents) ==
    \E r \in Mkdir(p, exist_ok, parents, fs) :
        FsDo("mkdir", [type |-> "mkdir", exist_ok |-> exist_ok, parents |-> parents], r)

DoSymlinkTo(real_file) ==
    \E r \in SymlinkTo(p, real_file, fs) : FsDo("symlink_to", PathArg(real_file), r)

DoStat(follow_symlinks) ==
    \E r \in Stat(p, follow_symlinks, fs) :
        FsDo("stat", [type |-> "stat", follow_symlinks |-> follow_symlinks], r)

DoLstat == \E r \in Lstat(p, fs) : FsDo("lstat", NoArg, r)

DoUnlink(missing_ok) ==
    \E r \in Unlink(p, missing_ok, fs) :
        FsDo("unlink", [type |-> "unlink", missing_ok |-> missing_ok], r)

DoTouch == \E r \in Touch(p, fs) : FsDo("touch", NoArg, r)

DoChmod(mode) == \E r \in Chmod(p, mode, fs) : FsDo("chmod", [type |-> "chmod", mode |-> mode], r)

DoFsResolve == \E r \in FsResolve(p, fs) : FsDo("resolve", NoArg, r)

DoIsDir == \E r \in IsDir(p, fs) : FsDo("is_dir", NoArg, r)

DoIsFile == \E r \in IsFile(p, fs) : FsDo("is_file", NoArg, r)

DoIsSymlink == \E r \in IsSymlink(p, fs) : FsDo("is_symlink", NoArg, r)

DoIsSocket == \E r \in IsSocket(p, fs) : FsDo("is_socket", NoArg, r)

\* p.glob(pattern): the caller gets a generator, nothing has run yet
DoGlobCall(glob_pattern) ==
    FsDo("glob", StrArg(glob_pattern), Result(Ok("generator"), <<>>, fs))

\* the first next() on the generator glob returned
DoGlobNext ==
    /\ last.op = "glob"
    /\ \E r \in GlobBody(last.self, last.arg.text, fs) : FsDo("next(glob)", last.arg, r)

FsNext ==
    \/ DoExists
    \/ DoReadText
    \/ \E exist_ok, parents \in BOOLEAN : DoMkdir(exist_ok, parents)
    \/ \E real_file \in {PathOfStr(<<"/", "2">>).val, PathOfStr(<<"a", ":", "/", "2">>).val} :
           DoSymlinkTo(real_file)
    \/ \E follow_symlinks \in BOOLEAN : DoStat(follow_symlinks)
    \/ DoLstat
    \/ \E missing_ok \in BOOLEAN : DoUnlink(missing_ok)
    \/ DoTouch
    \/ \E mode \in {420, 493} : DoChmod(mode)
    \/ DoFsResolve
    \/ DoIsDir
    \/ DoIsFile
    \/ DoIsSymlink
    \/ DoIsSocket
    \/ \E glob_pattern \in {<<"*">>, <<"a", "*">>} : DoGlobCall(glob_pattern)
    \/ DoGlobNext

SpecFs == FsInit /\ [][FsNext]_vars

(***************************************************************************)
(* Properties                                                              *)
(***************************************************************************)
\* the text of the bare path holds neither ':/' nor ':~'
Unambiguous(x) ==
    Find2(PathStr(x.path), ":", "/") = 0 /\ Find2(PathStr(x.path), ":", "~") = 0

\* Path(str(x)) == x
RoundTrips(x) ==
    LET again == PathOfStr(Str(x))
    IN  again.ok /\ again.val.path = x.path /\ again.val.host = x.host

\* C1: a Path built from a text, or returned by parent, with_name, with_stem,
\* with_suffix, join or relative_to, whose bare path holds no ':/' and no ':~',
\* is equal to the Path parsed from its string form.
C1_RoundTrip ==
    /\ last.op \in {"Path", "parent", "with_name", "with_stem", "with_suffix", "join",
                    "relative_to"}
    /\ last.out.ok
    /\ Unambiguous(last.out.val)
    => RoundTrips(last.out.val)

\* a remote Path with a user and a port of its own and a bare path of two
\* segments was re-parsed from its string form into an equal Path
C1_Witness ==
    /\ last.op = "reparse"
    /\ IsRemote(last.self)
    /\ last.self.host.user # _DEFAULT_USER
    /\ last.self.host.port # _DEFAULT_PORT
    /\ Len(last.self.path.parts) = 2
    /\ Unambiguous(last.self)
    /\ last.out.ok
    /\ PathEq(last.out.val, last.self)

\* C7: p == other is true for a Path other exactly when bare paths and hosts
\* (hostname, user and port together) are equal, for a pathlib path exactly
\* when p is local and the bare paths are equal, and false for anything else.
C7_Equality ==
    last.op = "eq" =>
        /\ last.out.ok
        /\ last.arg.type = "Path" =>
             (last.out.val <=> /\ last.self.path = last.arg.obj.path
                               /\ last.self.host = last.arg.obj.host)
        /\ last.arg.type = "LocalPath" =>
             (last.out.val <=> /\ last.self.path = last.arg.obj.path
                               /\ last.self.host.kind = "Local")
        /\ last.arg.type \notin {"Path", "LocalPath"} => last.out.val = FALSE

\* two remote Paths with the same bare path, hostname and user but different
\* ports were compared and found unequal
C7_Witness ==
    /\ last.op = "eq"
    /\ last.arg.type = "Path"
    /\ IsRemote(last.self) /\ IsRemote(last.arg.obj)
    /\ last.self.path = last.arg.obj.path
    /\ last.self.host.hostname = last.arg.obj.host.hostname
    /\ last.self.host.user = last.arg.obj.host.user
    /\ last.self.host.port # last.arg.obj.host.port
    /\ last.out.val = FALSE

\* the error kind the caller's mapping or else the defaults give a phrase
KindOf(exc, key) ==
    LET from == IF HasKey(exc.map, key) THEN exc.map ELSE _DEFAULT_BASH_EXCEPTIONS
    IN  from[CHOOSE i \in 1..Len(from) : from[i].key = key].exception

Keys(d) == {d[i].key : i \in 1..Len(d)}

\* the phrases of defaults and caller that are substrings of stderr
Matching(exc, stderr) ==
    {k \in Keys(_DEFAULT_BASH_EXCEPTIONS) \cup Keys(exc.map) : IsSubstr(k, stderr)}

\* C8: a command that exits zero raises nothing; a failed one raises the single
\* kind the caller passed, or else the kind of a phrase (the caller's entry
\* standing for the default of the same phrase) that is a substring of stderr,
\* and the original failure when no phrase is.
C8_Translation ==
    cmd.raised # "pending" =>
        /\ cmd.exit = 0 => cmd.raised = "none"
        /\ cmd.exit # 0 /\ cmd.exc.type = "class" => cmd.raised = cmd.exc.class
        /\ cmd.exit # 0 /\ cmd.exc.type # "class" =>
             IF Matching(cmd.exc, cmd.stderr) = {}
             THEN cmd.raised = "CalledProcessError"
             ELSE cmd.raised \in {KindOf(cmd.exc, k) : k \in Matching(cmd.exc, cmd.stderr)}

\* a failed command whose stderr says 'Permission denied' raised the kind the
\* caller mapped that phrase to, not the default one
C8_Witness ==
    /\ cmd.exit # 0
    /\ cmd.exc.type = "dict"
    /\ HasKey(cmd.exc.map, <<"Permission", "denied">>)
    /\ KindOf(cmd.exc, <<"Permission", "denied">>) = "FooError"
    /\ Matching(cmd.exc, cmd.stderr) = {<<"Permission", "denied">>}
    /\ cmd.raised = "FooError"

\* the phrases in the order the loop meets them: the defaults as declared,
\* then the phrases only the caller has, in the caller's order
PhraseOrder(exc) ==
    [i \in 1..Len(_DEFAULT_BASH_EXCEPTIONS) |-> _DEFAULT_BASH_EXCEPTIONS[i].key]
        \o [i \in 1..Len(SelectSeq(exc.map, LAMBDA e : ~HasKey(_DEFAULT_BASH_EXCEPTIONS, e.key)))
              |-> SelectSeq(exc.map, LAMBDA e : ~HasKey(_DEFAULT_BASH_EXCEPTIONS, e.key))[i].key]

MatchingAt(exc, stderr) ==
    {i \in 1..Len(PhraseOrder(exc)) : IsSubstr(PhraseOrder(exc)[i], stderr)}

\* a failed command, classified by a mapping, with a matching phrase
Classified ==
    /\ cmd.raised # "pending"
    /\ cmd.exit # 0
    /\ cmd.exc.type # "class"
    /\ MatchingAt(cmd.exc, cmd.stderr) # {}

\* C10 as amended: when several phrases of the merged mapping are substrings
\* of stderr, the error raised is the kind of the last matching phrase in the
\* order defaults as declared, then the caller's added phrases.
C10_LastMatchWins ==
    Classified =>
        LET hits == MatchingAt(cmd.exc, cmd.stderr)
            i == CHOOSE h \in hits : \A g \in hits : g <= h
        IN  cmd.raised = KindOf(cmd.exc, PhraseOrder(cmd.exc)[i])

\* C10 as stated: the error raised is the kind of the first matching phrase.
C10_FirstMatchWins ==
    Classified =>
        LET hits == MatchingAt(cmd.exc, cmd.stderr)
            i == CHOOSE h \in hits : \A g \in hits : h <= g
        IN  cmd.raised = KindOf(cmd.exc, PhraseOrder(cmd.exc)[i])

\* stderr held 'No such file or directory' and 'Permission denied', nothing of
\* the caller's, and permission-denied, the later phrase, was raised
C10_Witness ==
    /\ Classified
    /\ MatchingAt(cmd.exc, cmd.stderr) = {1, 2}
    /\ cmd.raised = "PermissionError"

\* where the first '/' or '~' of a text is, 0 when it has none
Marker(s) ==
    LET hits == {i \in 1..Len(s) : s[i] \in {"/", "~"}}
    IN  IF hits = {} THEN 0 ELSE CHOOSE i \in hits : \A j \in hits : i <= j

\* the text before the colon that precedes the first '/' or '~'
Descriptor(s) == SubSeq(s, 1, Marker(s) - 2)

\* the parts of a descriptor [user@]hostname[:port]
PortPart(d) == IF Contains(d, ":") THEN From(d, Index(d, ":") + 1) ELSE <<>>
UserHostPart(d) == IF Contains(d, ":") THEN Before(d, Index(d, ":")) ELSE d
UserPart(d) ==
    IF Contains(UserHostPart(d), "@")
    THEN Before(UserHostPart(d), Index(UserHostPart(d), "@"))
    ELSE <<>>
HostPart(d) ==
    IF Contains(UserHostPart(d), "@")
    THEN From(UserHostPart(d), Index(UserHostPart(d), "@") + 1)
    ELSE UserHostPart(d)

\* a user or host name: letters and digits
IsWord(s) == Len(s) > 0 /\ \A i \in 1..Len(s) : s[i] \in {"a", "2"}

\* '[user@]hostname[:port]:' followed by a bare path that starts with '/' or
\* '~': at most one '@' and one ':' in the descriptor, an integer port
InGrammar(s) ==
    /\ Marker(s) >= 3
    /\ s[Marker(s) - 1] = ":"
    /\ Count(Descriptor(s), "@") <= 1
    /\ Count(Descriptor(s), ":") <= 1
    /\ Contains(Descriptor(s), ":") => IsInt(PortPart(Descriptor(s)))
    /\ Contains(Descriptor(s), "@") => IsWord(UserPart(Descriptor(s)))
    /\ IsWord(HostPart(Descriptor(s)))

\* the host the grammar gives a descriptor, defaults filled in
GrammarHost(d) ==
    Remote(HostPart(d),
           IF Contains(d, "@") THEN UserPart(d) ELSE _DEFAULT_USER,
           IF Contains(d, ":") THEN ParseInt(PortPart(d)) ELSE _DEFAULT_PORT)

\* C2: a text '[user@]hostname[:port]:' followed by a bare path that starts
\* with '/' or '~' parses to Remote(hostname, user, port), the defaults filled
\* in, and to the bare path from the '/' or '~' onward, later colons kept.
C2_ParsesGrammar ==
    last.op = "Path" /\ InGrammar(last.arg.text) =>
        /\ last.out.ok
        /\ last.out.val.host = GrammarHost(Descriptor(last.arg.text))
        /\ last.out.val.path = LocalPath(From(last.arg.text, Marker(last.arg.text)))

\* C3: a text with no ':' before its first '/' or '~' parses, without failing,
\* to the Local host and the whole text as the bare path.
C3_ColonAfterMarkerIsLocal ==
    /\ last.op = "Path"
    /\ \A i \in 1..(Marker(last.arg.text) - 1) : last.arg.text[i] # ":"
    => /\ last.out.ok
       /\ last.out.val = PathOfLocal(LocalPath(last.arg.text))

\* C9: a Remote host parsed from a text has a non-empty hostname.
C9_HostnameNonEmpty ==
    last.op = "Path" /\ last.out.ok /\ IsRemote(last.out.val) =>
        last.out.val.host.hostname # <<>>

\* C4: the Path returned by parent, with_name, with_stem, with_suffix, join
\* (with a str or a bare path), relative_to or resolve has the host of the
\* Path it was called on.
C4_HostCarried ==
    /\ last.op \in {"parent", "with_name", "with_stem", "with_suffix", "join",
                    "relative_to", "resolve"}
    /\ last.op = "join" => last.arg.type \in {"str", "LocalPath"}
    /\ last.out.ok
    => last.out.val.host = last.self.host

\* C5: p / q raises the host-mismatch error exactly when q is a Path with a
\* Remote host other than p's; in every other case it returns a Path with p's
\* host and p's bare path joined with q's.
C5_Join ==
    last.op = "join" /\ PathOf(last.arg).ok =>
        LET foreign == /\ last.arg.type = "Path"
                       /\ IsRemote(last.arg.obj)
                       /\ last.arg.obj.host # last.self.host
            mismatch == /\ ~last.out.ok
                        /\ last.out.exc = "ValueError: Hosts must be the same when joining paths"
        IN  /\ mismatch <=> foreign
            /\ ~foreign =>
                 /\ last.out.ok
                 /\ last.out.val.host = last.self.host
                 /\ last.out.val.path = LocalJoin(last.self.path, PathOf(last.arg).val.path)

\* C6: with different hosts relative_to raises and is_relative_to is false;
\* with equal hosts relative_to raises exactly when the other bare path is not
\* a prefix, and is_relative_to tells whether it is.
C6_RelativeTo ==
    last.op \in {"relative_to", "is_relative_to"} /\ PathOf(last.arg).ok =>
        LET q == PathOf(last.arg).val
            related == q.host = last.self.host /\ IsPrefix(q.path, last.self.path)
        IN  IF last.op = "relative_to"
            THEN last.out.ok <=> related
            ELSE last.out.ok /\ (last.out.val <=> related)

\* a bare path that begins with the root or with the home marker
Anchored(lp) == PathStr(lp)[1] \in {"/", "~"}

\* C11: every Path a constructor or a Path-returning method hands back (from
\* a text, a bare local path or another Path; parent, with_name, with_stem,
\* with_suffix, join, relative_to, resolve, glob) that is on a Remote host
\* has a bare path beginning with '/' or '~'; so does the Path at hand.
C11_NoRelativeRemote ==
    /\ IsRemote(p) => Anchored(p.path)
    /\ (last.out.ok /\ last.op \in DerivingOps \cup {"Path"} /\ IsRemote(last.out.val))
          => Anchored(last.out.val.path)

\* a Remote Path came out of relative_to, of parent or of glob, where the
\* bare path pathlib computed is relative or is the home marker's parent
C11_Witness ==
    /\ last.op \in {"relative_to", "parent", "glob", "with_name"}
    /\ IsRemote(last.self)
    /\ last.out.ok
    /\ IsRemote(last.out.val)
    /\ last.out.val.path # last.self.path

\* the operations that work on the file behind a Path
FileOps ==
    {"exists", "read_text", "mkdir", "symlink_to", "stat", "lstat", "unlink", "touch", "chmod",
     "resolve", "glob", "is_dir", "is_file", "is_symlink", "is_socket"}

\* the command did not complete with exit status zero
Failed(end) == end.timeout \/ end.exit # 0

\* the last call ran exactly one command, on its Path's host, and raised
\* if that command failed
OneCommand ==
    /\ Len(ran) = 1
    /\ ran[1].host = last.self.host
    /\ Failed(ran[1].end) =>
          /\ ~last.out.ok
          /\ last.out.exc \in {"CalledProcessError", "FileNotFoundError", "PermissionError",
                               "FileExistsError", "TimeoutExpired"}

\* C12 as stated: each call of exists, read_text, mkdir, symlink_to, stat,
\* lstat, unlink, touch, chmod, resolve, glob, is_dir, is_file, is_symlink
\* or is_socket on a remote Path hands exactly one command to the host's
\* run, and a failure of that command is raised to the caller; on a local
\* Path the call runs no command.
C12_OneCommandPerCall ==
    last.op \in FileOps => IF IsRemote(last.self) THEN OneCommand ELSE ran = <<>>

\* C12, amended: the same for every one of these operations but glob; a
\* call of glob runs no command, it returns a generator, and the first
\* next() on that generator runs exactly one command on a remote Path (a
\* failure of it is raised there) and none on a local Path.
C12_OneCommandPerOperation ==
    /\ last.op \in (FileOps \ {"glob"}) \cup {"next(glob)"} =>
          IF IsRemote(last.self) THEN OneCommand ELSE ran = <<>>
    /\ last.op = "glob" => ran = <<>> /\ last.out.ok

\* a command of a remote Path failed and the call raised
C12_Witness ==
    /\ last.op \in FileOps \cup {"next(glob)"}
    /\ IsRemote(last.self)
    /\ Len(ran) = 1
    /\ Failed(ran[1].end)
    /\ ~last.out.ok

\* the command of the step ran on the host: the transport worked and
\* nothing but the state of the path decided how it ended
RanOnHost(c, f, end) == end \in {o.end : o \in Sh(c, f)}

\* C13: mkdir(exist_ok=True) on a remote Path, with and without parents,
\* ends as pathlib's mkdir(exist_ok=True) does on a local Path whose
\* target is in the same state (absent, a directory, a regular file): the
\* same success or the same kind of error, and the same directories
\* afterwards.
C13_MkdirAsLocal ==
    [][(/\ last'.op = "mkdir"
        /\ last'.arg.exist_ok
        /\ IsRemote(p)
        /\ fs.target \in {"absent", "dir", "file"}
        /\ RanOnHost(MkdirCommand(p, TRUE, last'.arg.parents), fs, ran'[1].end))
         => LET n == LocalMkdir(TRUE, last'.arg.parents, fs)
            IN  /\ last'.out.ok = n.out.ok
                /\ last'.out.exc = n.out.exc
                /\ fs' = n.fs]_vars


====
